---------------------------- MODULE Spec2Model ----------------------------
(***************************************************************************)
(* A model of the Dev-Events platform's persistence layer:                 *)
(*   - lib/mongodb.ts        the process-wide connection cache             *)
(*   - database/event.model  the Event pre-save validator / normalizer     *)
(*   - the Booking model     the Booking pre-save validator                *)
(* Text is modelled as a sequence of one-character strings, so that        *)
(* trimming, regular-expression matching, parsing and formatting are       *)
(* computed rather than assumed.                                           *)
(***************************************************************************)
EXTENDS Integers, Sequences, FiniteSets, TLC

(***************************************************************************)
(* Text helpers (String.prototype.trim, toLowerCase, parseInt, padStart)   *)
(***************************************************************************)
Digits == <<"0", "1", "2", "3", "4", "5", "6", "7", "8", "9">>

IsDigit(c) == \E i \in 1..10 : Digits[i] = c

DigitVal(c) == (CHOOSE i \in 1..10 : Digits[i] = c) - 1

DigitChar(n) == Digits[n + 1]

IsSpace(c) == c \in {" ", "\t", "\n"}

AllDigits(s) == \A i \in 1..Len(s) : IsDigit(s[i])

RECURSIVE ParseInt(_)
ParseInt(s) ==
    IF Len(s) = 0 THEN 0
    ELSE 10 * ParseInt(SubSeq(s, 1, Len(s) - 1)) + DigitVal(s[Len(s)])

UpperLetters ==
    <<"A", "B", "C", "D", "E", "F", "G", "H", "I", "J", "K", "L", "M",
      "N", "O", "P", "Q", "R", "S", "T", "U", "V", "W", "X", "Y", "Z">>

LowerLetters ==
    <<"a", "b", "c", "d", "e", "f", "g", "h", "i", "j", "k", "l", "m",
      "n", "o", "p", "q", "r", "s", "t", "u", "v", "w", "x", "y", "z">>

LowerChar(c) ==
    IF \E i \in 1..26 : UpperLetters[i] = c
    THEN LowerLetters[CHOOSE i \in 1..26 : UpperLetters[i] = c]
    ELSE c

ToLowerCase(s) == [i \in 1..Len(s) |-> LowerChar(s[i])]

RECURSIVE TrimStart(_)
TrimStart(s) ==
    IF Len(s) > 0 /\ IsSpace(s[1]) THEN TrimStart(Tail(s)) ELSE s

RECURSIVE TrimEnd(_)
TrimEnd(s) ==
    IF Len(s) > 0 /\ IsSpace(s[Len(s)])
    THEN TrimEnd(SubSeq(s, 1, Len(s) - 1))
    ELSE s

Trim(s) == TrimEnd(TrimStart(s))

RECURSIVE NumToStr(_)
NumToStr(n) ==
    IF n < 10 THEN <<DigitChar(n)>>
    ELSE NumToStr(n \div 10) \o <<DigitChar(n % 10)>>

RECURSIVE PadStart(_, _)
PadStart(s, width) ==
    IF Len(s) >= width THEN s ELSE PadStart(<<"0">> \o s, width)

Pad2NoPadding(n) == NumToStr(n)

Pad2(n) == PadStart(NumToStr(n), 2)

(* The outcome of a function that returns text or throws. *)
Returned(s) == [ok |-> TRUE, v |-> s]

Thrown == [ok |-> FALSE, v |-> <<>>]

(***************************************************************************)
(* slugify                                                                 *)
(***************************************************************************)
IsSlugChar(c) == IsDigit(c) \/ \E i \in 1..26 : LowerLetters[i] = c

(* .replace(/[^a-z0-9]+/g, "-"): each maximal run becomes one dash. *)
RECURSIVE ReplaceRuns(_, _)
ReplaceRuns(s, inRun) ==
    IF Len(s) = 0 THEN <<>>
    ELSE IF IsSlugChar(s[1]) THEN <<s[1]>> \o ReplaceRuns(Tail(s), FALSE)
    ELSE IF inRun THEN ReplaceRuns(Tail(s), TRUE)
    ELSE <<"-">> \o ReplaceRuns(Tail(s), TRUE)

(* .replace(/(^-|-$)/g, ""): one leading and one trailing dash. *)
StripEdgeDashes(s) ==
    LET a == IF Len(s) > 0 /\ s[1] = "-" THEN Tail(s) ELSE s
    IN  IF Len(a) > 0 /\ a[Len(a)] = "-" THEN SubSeq(a, 1, Len(a) - 1) ELSE a

slugify(value) == StripEdgeDashes(ReplaceRuns(Trim(ToLowerCase(value)), FALSE))

(***************************************************************************)
(* normalizeTimeTo24                                                       *)
(***************************************************************************)
(* /^(\d{1,2}):(\d{2})$/ : the groups, or <<>> when there is no match. *)
MatchHHMM(s) ==
    LET n == Len(s)
    IN  IF /\ n \in {4, 5}
           /\ s[n - 2] = ":"
           /\ AllDigits(SubSeq(s, 1, n - 3))
           /\ AllDigits(SubSeq(s, n - 1, n))
        THEN <<SubSeq(s, 1, n - 3), SubSeq(s, n - 1, n)>>
        ELSE <<>>

(* /^(\d{1,2})(?::(\d{2}))?\s*(am|pm)$/ : <<hour, minute or <<>>, period>>. *)
MatchAmPm(s) ==
    LET n == Len(s)
    IN  IF n < 3 \/ ~(s[n] = "m" /\ s[n - 1] \in {"a", "p"}) THEN <<>>
        ELSE
          LET period == SubSeq(s, n - 1, n)
              body   == TrimEnd(SubSeq(s, 1, n - 2))
              k      == Len(body)
          IN  IF k \in {1, 2} /\ AllDigits(body)
              THEN <<body, <<>>, period>>
              ELSE IF MatchHHMM(body) /= <<>>
              THEN <<MatchHHMM(body)[1], MatchHHMM(body)[2], period>>
              ELSE <<>>

FormatHHMM(h, m) == Pad2(h) \o <<":">> \o Pad2(m)

normalizeTimeTo24(input) ==
    LET trimmed == ToLowerCase(Trim(input))
        hhmm    == MatchHHMM(trimmed)
        ampm    == MatchAmPm(trimmed)
        hh      == ParseInt(hhmm[1])
        mm      == ParseInt(hhmm[2])
        hour0   == ParseInt(ampm[1])
        minute  == IF ampm[2] /= <<>> THEN ParseInt(ampm[2]) ELSE 0
        period  == ampm[3]
        hour1   == IF period = <<"p", "m">> /\ hour0 /= 12 THEN hour0 + 12 ELSE hour0
        hour    == IF period = <<"a", "m">> /\ hour1 = 12 THEN 0 ELSE hour1
    IN  IF hhmm /= <<>> /\ hh >= 0 /\ hh < 24 /\ mm >= 0 /\ mm < 60
        THEN Returned(FormatHHMM(hh, mm))
        ELSE IF ampm /= <<>> /\ hour >= 0 /\ hour < 24 /\ minute >= 0 /\ minute < 60
        THEN Returned(FormatHHMM(hour, minute))
        ELSE Thrown

(***************************************************************************)
(* normalizeDateToISO: new Date(input) and Date.prototype.toISOString.     *)
(* A time value is <<day number since 1970-01-01, millisecond of the day>>.*)
(* Accepted date-time grammars (the ECMAScript date-time string format):   *)
(*   YYYY-MM-DD                     UTC midnight                            *)
(*   YYYY-MM-DDTHH:mm               local time (offset of the host)         *)
(*   YYYY-MM-DDTHH:mm:ss.sssZ       UTC                                     *)
(*   +YYYYYY-.. / -YYYYYY-..        the same with an expanded year          *)
(* Everything else yields NaN.                                             *)
(***************************************************************************)
MsPerDay == 86400000

NaN == [valid |-> FALSE, day |-> 0, ms |-> 0]

TimeValue(day, ms) == [valid |-> TRUE, day |-> day, ms |-> ms]

(* MakeDay: the day number of a civil date; a day past the month's end rolls over. *)
DaysFromCivil(y, m, d) ==
    LET yy  == IF m <= 2 THEN y - 1 ELSE y
        era == yy \div 400
        yoe == yy - era * 400
        mp  == IF m > 2 THEN m - 3 ELSE m + 9
        doy == (153 * mp + 2) \div 5 + d - 1
        doe == yoe * 365 + yoe \div 4 - yoe \div 100 + doy
    IN  era * 146097 + doe - 719468

(* YearFromTime, MonthFromTime, DateFromTime: <<year, month, day>>. *)
CivilFromDays(z0) ==
    LET z   == z0 + 719468
        era == z \div 146097
        doe == z - era * 146097
        yoe == (doe - doe \div 1460 + doe \div 36524 - doe \div 146096) \div 365
        doy == doe - (365 * yoe + yoe \div 4 - yoe \div 100)
        mp  == (5 * doy + 2) \div 153
        d   == doy - (153 * mp + 2) \div 5 + 1
        m   == IF mp < 10 THEN mp + 3 ELSE mp - 9
        y   == yoe + era * 400
    IN  <<IF m <= 2 THEN y + 1 ELSE y, m, d>>

(* Move a time value by a number of minutes, carrying into the day number. *)
ShiftMinutes(t, minutes) ==
    LET total == t.ms + minutes * 60000
    IN  TimeValue(t.day + total \div MsPerDay, total % MsPerDay)

(* The year part: <<sign, year digits, what follows>>, or <<>>. *)
SplitYear(s) ==
    IF Len(s) >= 4 /\ AllDigits(SubSeq(s, 1, 4))
    THEN <<1, SubSeq(s, 1, 4), SubSeq(s, 5, Len(s))>>
    ELSE IF Len(s) >= 7 /\ s[1] \in {"+", "-"} /\ AllDigits(SubSeq(s, 2, 7))
            /\ ~(s[1] = "-" /\ ParseInt(SubSeq(s, 2, 7)) = 0)
    THEN <<IF s[1] = "-" THEN -1 ELSE 1, SubSeq(s, 2, 7), SubSeq(s, 8, Len(s))>>
    ELSE <<>>

(* "-MM-DD" *)
IsDatePart(r) ==
    /\ Len(r) >= 6
    /\ r[1] = "-" /\ r[4] = "-"
    /\ AllDigits(SubSeq(r, 2, 3)) /\ AllDigits(SubSeq(r, 5, 6))

(* "THH:mm" or "THH:mm:ss.sssZ", after the date part *)
IsLocalTimePart(r) ==
    /\ Len(r) = 6
    /\ r[1] = "T" /\ r[4] = ":"
    /\ AllDigits(SubSeq(r, 2, 3)) /\ AllDigits(SubSeq(r, 5, 6))

IsUtcTimePart(r) ==
    /\ Len(r) = 14
    /\ IsLocalTimePart(SubSeq(r, 1, 6))
    /\ r[7] = ":" /\ r[10] = "." /\ r[14] = "Z"
    /\ AllDigits(SubSeq(r, 8, 9)) /\ AllDigits(SubSeq(r, 11, 13))

(* new Date(input).getTime(), for a host whose local time is UTC + tzMinutes. *)
DateParse(input, tzMinutes) ==
    LET ys == SplitYear(input)
    IN  IF ys = <<>> \/ ~IsDatePart(ys[3]) THEN NaN
        ELSE
          LET y     == ys[1] * ParseInt(ys[2])
              r     == ys[3]
              mo    == ParseInt(SubSeq(r, 2, 3))
              d     == ParseInt(SubSeq(r, 5, 6))
              t     == SubSeq(r, 7, Len(r))
              isUtc == IsUtcTimePart(t)
              hasT  == isUtc \/ IsLocalTimePart(t)
              h     == IF hasT THEN ParseInt(SubSeq(t, 2, 3)) ELSE 0
              mi    == IF hasT THEN ParseInt(SubSeq(t, 5, 6)) ELSE 0
              sec   == IF isUtc THEN ParseInt(SubSeq(t, 8, 9)) ELSE 0
              msec  == IF isUtc THEN ParseInt(SubSeq(t, 11, 13)) ELSE 0
              okTime == \/ h <= 23 /\ mi <= 59 /\ sec <= 59
                        \/ h = 24 /\ mi = 0 /\ sec = 0 /\ msec = 0
              tod   == ((h * 60 + mi) * 60 + sec) * 1000 + msec
              utc   == TimeValue(DaysFromCivil(y, mo, d) + tod \div MsPerDay,
                                 tod % MsPerDay)
          IN  IF ~(Len(t) = 0 \/ hasT) THEN NaN
              ELSE IF mo < 1 \/ mo > 12 \/ d < 1 \/ d > 31 \/ ~okTime THEN NaN
              ELSE IF hasT /\ ~isUtc THEN ShiftMinutes(utc, -tzMinutes)
              ELSE utc

YearToISO(y) ==
    IF y >= 0 /\ y <= 9999 THEN PadStart(NumToStr(y), 4)
    ELSE IF y < 0 THEN <<"-">> \o PadStart(NumToStr(-y), 6)
    ELSE <<"+">> \o PadStart(NumToStr(y), 6)

ZoneSuffix == <<"Z">>

(* Date.prototype.toISOString *)
ToISOString(t) ==
    LET ymd == CivilFromDays(t.day)
        h   == t.ms \div 3600000
        mi  == (t.ms \div 60000) % 60
        sec == (t.ms \div 1000) % 60
        ms  == t.ms % 1000
    IN  YearToISO(ymd[1]) \o <<"-">> \o Pad2(ymd[2]) \o <<"-">> \o Pad2(ymd[3])
          \o <<"T">> \o Pad2(h) \o <<":">> \o Pad2(mi) \o <<":">> \o Pad2(sec)
          \o <<".">> \o PadStart(NumToStr(ms), 3) \o ZoneSuffix

normalizeDateToISO(input, tzMinutes) ==
    LET dt == DateParse(input, tzMinutes)
    IN  IF ~dt.valid THEN Thrown ELSE Returned(ToISOString(dt))

(***************************************************************************)
(* Event documents                                                         *)
(***************************************************************************)
Str(s) == [kind |-> "string", s |-> s]

Undefined == [kind |-> "undefined", s |-> <<>>]

Arr(items) == [kind |-> "array", s |-> items]

(* requiredStringFields, in the order the hook walks them *)
requiredStringFields ==
    <<"title", "description", "overview", "image", "venue", "location",
      "date", "time", "mode", "audience", "organizer">>

(* typeof val !== "string" || val.trim().length === 0 *)
IsMissingText(val) == val.kind /= "string" \/ Len(Trim(val.s)) = 0

(* !Array.isArray(a) || a.length === 0 *)
IsMissingArray(a) == a.kind /= "array" \/ Len(a.s) = 0

(* The first required text field the loop rejects, or "none". *)
FirstMissingField(d) ==
    LET bad == {i \in 1..Len(requiredStringFields) :
                    IsMissingText(d[requiredStringFields[i]])}
    IN  IF bad = {} THEN "none"
        ELSE requiredStringFields[CHOOSE i \in bad : \A j \in bad : i <= j]

(* !this.slug *)
SlugAbsent(d) == d.slug.kind /= "string" \/ Len(d.slug.s) = 0

ShouldRegenerateSlugOnlyWhenAbsent(d, titleMod) == SlugAbsent(d)

(* this.isModified("title") || !this.slug *)
ShouldRegenerateSlug(d, titleMod) == titleMod \/ SlugAbsent(d)

SlugStep(d, titleMod) ==
    IF ShouldRegenerateSlug(d, titleMod)
    THEN [d EXCEPT !.slug = Str(slugify(d.title.s))]
    ELSE d

(* What the hook leaves: the document, the step that threw ("none" when   *)
(* it returned) and the field the error names.                             *)
HookResult(d, step, field) == [doc |-> d, err |-> step, field |-> field]

(* this.time = normalizeTimeTo24(this.time) *)
TimeStep(d) ==
    IF ~normalizeTimeTo24(d.time.s).ok THEN HookResult(d, "time", "time")
    ELSE HookResult([d EXCEPT !.time = Str(normalizeTimeTo24(d.time.s).v)],
                    "none", "none")

(* this.date = normalizeDateToISO(this.date), then the time *)
DateStep(d, tzMinutes) ==
    IF ~normalizeDateToISO(d.date.s, tzMinutes).ok THEN HookResult(d, "date", "date")
    ELSE TimeStep([d EXCEPT !.date = Str(normalizeDateToISO(d.date.s, tzMinutes).v)])

(* The hook with the slug assigned ahead of the validation. *)
PreSaveSlugFirst(d, titleMod, tzMinutes) ==
    IF FirstMissingField(d) /= "none"
    THEN HookResult(SlugStep(d, titleMod), "required", FirstMissingField(d))
    ELSE IF IsMissingArray(d.agenda)
    THEN HookResult(SlugStep(d, titleMod), "agenda", "agenda")
    ELSE IF IsMissingArray(d.tags)
    THEN HookResult(SlugStep(d, titleMod), "tags", "tags")
    ELSE DateStep(SlugStep(d, titleMod), tzMinutes)

(* EventSchema.pre("save") *)
PreSave(d, titleMod, tzMinutes) ==
    IF FirstMissingField(d) /= "none"
    THEN HookResult(d, "required", FirstMissingField(d))
    ELSE IF IsMissingArray(d.agenda) THEN HookResult(d, "agenda", "agenda")
    ELSE IF IsMissingArray(d.tags) THEN HookResult(d, "tags", "tags")
    ELSE DateStep(SlugStep(d, titleMod), tzMinutes)

(***************************************************************************)
(* State                                                                   *)
(***************************************************************************)
VARIABLES
    \* --- the Event document being edited and saved ---
    doc,            \* the in-memory document (field -> value)
    titleModified,  \* this.isModified("title")
    persisted,      \* <<>> or <<the stored copy of the document>>
    before,         \* <<>> or <<what doc, persisted were when the last save began>>
    result,         \* "none", "ok", or the step at which the last save threw
    errField,       \* the field the last save's error names, or "none"
    tz,             \* the host's local-time offset from UTC, in minutes
    titleAtLastMod, \* <<>> or <<title as of the last save that had title modified>>
    slugByCaller,   \* doc.slug is a non-empty value the caller assigned itself
    storedSlugByCaller, \* so is the stored slug
    \* --- the connection cache and the callers of connectToDatabase ---
    envUri,         \* process.env.MONGODB_URI
    conn,           \* __mongoose.conn: 0 (null) or a handle
    promise,        \* __mongoose.promise: 0 (null) or a connect operation
    ops,            \* the connect operations started, in order
    reactions,      \* per operation, the callers awaiting it, in await order
    pc,             \* per caller: where its call stands
    awaited,        \* per caller: the operation its call awaits (0: none)
    ret,            \* per caller: the handle its call returned (0: none)
    err,            \* per caller: the error its call threw
    \* --- the store and the Booking saves in progress ---
    events,         \* identities of the Event records in the store
    bookings,       \* the Booking records in the store
    bpc,            \* per save: where it stands
    bdoc,           \* per save: the Booking document being saved
    found,          \* per save: what Event.exists answered
    berr            \* per save: the error the save threw

eventVars ==
    <<doc, titleModified, persisted, before, result, errField, tz, titleAtLastMod,
      slugByCaller, storedSlugByCaller>>

connVars == <<envUri, conn, promise, ops, reactions, pc, awaited, ret, err>>

bookingVars == <<events, bookings, bpc, bdoc, found, berr>>

vars == <<eventVars, connVars, bookingVars>>

(***************************************************************************)
(* The connection cache (lib/mongodb.ts)                                   *)
(***************************************************************************)
NumCallers == 3

MaxConnects == 2

Callers == 1..NumCallers

EnvValues == {Undefined, Str(<<" ">>), Str(<<"d", "b">>)}

(* Nothing of the cache moves while the Event or Booking models run. *)
ConnIdle ==
    /\ envUri = Undefined
    /\ conn = 0
    /\ promise = 0
    /\ ops = <<>>
    /\ reactions = <<>>
    /\ pc = [c \in Callers |-> "idle"]
    /\ awaited = [c \in Callers |-> 0]
    /\ ret = [c \in Callers |-> 0]
    /\ err = [c \in Callers |-> "none"]

(* process.env.MONGODB_URI?.trim() *)
MONGODB_URI == IF envUri.kind = "string" THEN Trim(envUri.s) ELSE <<>>

(* !MONGODB_URI *)
UriMissing == Len(MONGODB_URI) = 0

LiveHandleIgnored == FALSE

(* if (__mongoose.conn) *)
HasLiveHandle == conn /= 0

InFlightIgnored == FALSE

(* if (__mongoose.promise) *)
HasInFlight == promise /= 0

PromiseNotStored(op) == 0

(* __mongoose.promise = connectPromise *)
StoredPromise(op) == op

SlotKeptAfterFailure == promise

(* catch: __mongoose.promise = null *)
SlotAfterFailure == 0

Awaiting(c) == pc[c] \in {"awaitOwn", "awaitShared"}

(* connectToDatabase(), up to its first await or its return/throw *)
Call(c) ==
    /\ pc[c] = "idle"
    /\ UNCHANGED <<envUri, conn, eventVars, bookingVars>>
    /\ IF UriMissing THEN
          /\ pc' = [pc EXCEPT ![c] = "threw"]
          /\ err' = [err EXCEPT ![c] = "ConfigError"]
          /\ UNCHANGED <<promise, ops, reactions, awaited, ret>>
       ELSE IF HasLiveHandle THEN
          /\ pc' = [pc EXCEPT ![c] = "returned"]
          /\ ret' = [ret EXCEPT ![c] = conn]
          /\ UNCHANGED <<promise, ops, reactions, awaited, err>>
       ELSE IF HasInFlight THEN
          /\ pc' = [pc EXCEPT ![c] = "awaitShared"]
          /\ awaited' = [awaited EXCEPT ![c] = promise]
          /\ reactions' = [reactions EXCEPT ![promise] = Append(@, c)]
          /\ UNCHANGED <<promise, ops, ret, err>>
       ELSE
          /\ Len(ops) < MaxConnects
          /\ ops' = Append(ops, [state |-> "pending", owner |-> c])
          /\ promise' = StoredPromise(Len(ops) + 1)
          /\ pc' = [pc EXCEPT ![c] = "awaitOwn"]
          /\ awaited' = [awaited EXCEPT ![c] = Len(ops) + 1]
          /\ reactions' = Append(reactions, <<c>>)
          /\ UNCHANGED <<ret, err>>

(* mongoose.connect settles: connectPromise is fulfilled or rejected *)
ConnectSettles(k, outcome) ==
    /\ ops[k].state = "pending"
    /\ ops' = [ops EXCEPT ![k].state = outcome]
    /\ UNCHANGED <<envUri, conn, promise, reactions, pc, awaited, ret, err>>
    /\ UNCHANGED <<eventVars, bookingVars>>

(* A call resumes after its await, in the order the awaits were made. *)
Resume(c) ==
    /\ Awaiting(c)
    /\ ops[awaited[c]].state /= "pending"
    /\ Head(reactions[awaited[c]]) = c
    /\ reactions' = [reactions EXCEPT ![awaited[c]] = Tail(@)]
    /\ UNCHANGED <<envUri, ops, awaited, eventVars, bookingVars>>
    /\ IF ops[awaited[c]].state = "fulfilled" THEN
          /\ conn' = awaited[c]
          /\ pc' = [pc EXCEPT ![c] = "returned"]
          /\ ret' = [ret EXCEPT ![c] = awaited[c]]
          /\ UNCHANGED <<promise, err>>
       ELSE
          /\ promise' = IF pc[c] = "awaitOwn" THEN SlotAfterFailure ELSE promise
          /\ pc' = [pc EXCEPT ![c] = "threw"]
          /\ err' = [err EXCEPT ![c] = "ConnectError"]
          /\ UNCHANGED <<conn, ret>>

(* The caller goes on, and may call again. *)
CallerContinues(c) ==
    /\ pc[c] \in {"returned", "threw"}
    /\ pc' = [pc EXCEPT ![c] = "idle"]
    /\ awaited' = [awaited EXCEPT ![c] = 0]
    /\ ret' = [ret EXCEPT ![c] = 0]
    /\ err' = [err EXCEPT ![c] = "none"]
    /\ UNCHANGED <<envUri, conn, promise, ops, reactions, eventVars, bookingVars>>

(* The environment variable is set, blanked or unset. *)
SetEnv(v) ==
    /\ envUri /= v
    /\ envUri' = v
    /\ UNCHANGED <<conn, promise, ops, reactions, pc, awaited, ret, err>>
    /\ UNCHANGED <<eventVars, bookingVars>>

(***************************************************************************)
(* Booking documents and the store they are saved to                       *)
(***************************************************************************)
NumSavers == 2

Savers == 1..NumSavers

EventIds == {"e1", "e2"}

EmailInputs ==
    { <<" ", "a", ".", "b", "@", "c", ".", "d", ".", "e">>,
      <<"a", "@", "b">>, <<"a", " ", "b", "@", "c", ".", "d">> }

NoBooking == [eventId |-> "none", email |-> Undefined]

(* Nothing of the store moves while the other models run. *)
BookingIdle ==
    /\ events = {}
    /\ bookings = {}
    /\ bpc = [s \in Savers |-> "idle"]
    /\ bdoc = [s \in Savers |-> NoBooking]
    /\ found = [s \in Savers |-> FALSE]
    /\ berr = [s \in Savers |-> "none"]

(* /^[^\s@]+@[^\s@]+\.[^\s@]+$/.test(email) *)
isValidEmail(email) ==
    \E at \in 1..Len(email), dot \in 1..Len(email) :
        /\ email[at] = "@"
        /\ email[dot] = "."
        /\ 1 < at /\ at + 1 < dot /\ dot < Len(email)
        /\ \A i \in 1..Len(email) :
              /\ ~IsSpace(email[i])
              /\ email[i] = "@" => i = at

(* typeof this.email !== "string" || !isValidEmail(this.email) *)
EmailRejected(d) == d.email.kind /= "string" \/ ~isValidEmail(d.email.s)

EventNeverMissing(eventExists) == FALSE

EventMissingInverted(eventExists) == eventExists

(* if (!eventExists) *)
EventMissing(eventExists) == ~eventExists

(* email: { trim: true } *)
EmailSetter(v) == IF v.kind = "string" THEN Str(Trim(v.s)) ELSE v

(* booking.save(): the hook up to its await of Event.exists *)
BeginSave(s, e, m) ==
    /\ bpc[s] = "idle"
    /\ bdoc' = [bdoc EXCEPT ![s] = [eventId |-> e, email |-> EmailSetter(m)]]
    /\ IF EmailRejected(bdoc'[s]) THEN
          /\ bpc' = [bpc EXCEPT ![s] = "failed"]
          /\ berr' = [berr EXCEPT ![s] = "ValidationError"]
       ELSE
          /\ bpc' = [bpc EXCEPT ![s] = "querying"]
          /\ UNCHANGED berr
    /\ UNCHANGED <<events, bookings, found, eventVars, connVars>>

(* The store answers Event.exists({ _id: this.eventId }) *)
ExistsAnswers(s) ==
    /\ bpc[s] = "querying"
    /\ found' = [found EXCEPT ![s] = bdoc[s].eventId \in events]
    /\ bpc' = [bpc EXCEPT ![s] = "answered"]
    /\ UNCHANGED <<events, bookings, bdoc, berr, eventVars, connVars>>

(* The hook resumes with the answer *)
HookResumes(s) ==
    /\ bpc[s] = "answered"
    /\ IF EventMissing(found[s]) THEN
          /\ bpc' = [bpc EXCEPT ![s] = "failed"]
          /\ berr' = [berr EXCEPT ![s] = "ReferenceError"]
       ELSE
          /\ bpc' = [bpc EXCEPT ![s] = "saving"]
          /\ UNCHANGED berr
    /\ UNCHANGED <<events, bookings, bdoc, found, eventVars, connVars>>

(* The hook returned: the document is written to the store *)
WriteBooking(s) ==
    /\ bpc[s] = "saving"
    /\ bookings' = bookings \cup {bdoc[s]}
    /\ bpc' = [bpc EXCEPT ![s] = "saved"]
    /\ UNCHANGED <<events, bdoc, found, berr, eventVars, connVars>>

(* The save is over; its caller may save another document *)
SaveOver(s) ==
    /\ bpc[s] \in {"saved", "failed"}
    /\ bpc' = [bpc EXCEPT ![s] = "idle"]
    /\ bdoc' = [bdoc EXCEPT ![s] = NoBooking]
    /\ found' = [found EXCEPT ![s] = FALSE]
    /\ berr' = [berr EXCEPT ![s] = "none"]
    /\ UNCHANGED <<events, bookings, eventVars, connVars>>

(* An Event record is stored *)
CreateEvent(e) ==
    /\ e \notin events
    /\ events' = events \cup {e}
    /\ UNCHANGED <<bookings, bpc, bdoc, found, berr, eventVars, connVars>>

(* An Event record is deleted *)
DeleteEvent(e) ==
    /\ e \in events
    /\ events' = events \ {e}
    /\ UNCHANGED <<bookings, bpc, bdoc, found, berr, eventVars, connVars>>

(***************************************************************************)
(* Inputs of the Event model                                               *)
(***************************************************************************)
TimezoneOffsets == {-300, 0, 330}

EventTimezones == {330}

Titles ==
    { <<"G", "o", " ", "W", "e", "b", "!">>,
      <<" ", "a", "_", "b", "-", "-", "9", " ">> }

CallerSlugs == { <<"m", "y">> }

DateInputs ==
    { <<"2", "0", "2", "4", "-", "0", "3", "-", "0", "1", "T", "0", "1", ":", "3", "0">>,
      <<"s", "o", "o", "n">> }

TimeInputs ==
    { <<"9", ":", "3", "0", " ", "P", "M">>,
      <<"2", "5", ":", "0", "0">> }

Filler == Str(<<"x">>)

BadTexts == {Undefined, Str(<<" ">>)}

BadArrays == {Undefined, Arr(<<>>)}

(* The fields, besides title, date and time, that an edit may leave invalid. *)
EditableTexts == {"description", "organizer"}

EditableArrays == {"agenda", "tags"}

MaxBadFields == 1

BadFieldCount(d) ==
    Cardinality({f \in EditableTexts : IsMissingText(d[f])})
      + Cardinality({f \in EditableArrays : IsMissingArray(d[f])})

NewDocument(title, date, time) ==
    [title |-> title, slug |-> Undefined, description |-> Filler,
     overview |-> Filler, image |-> Filler, venue |-> Filler,
     location |-> Filler, date |-> date, time |-> time, mode |-> Filler,
     audience |-> Filler, agenda |-> Arr(<<"x">>), organizer |-> Filler,
     tags |-> Arr(<<"x">>)]

(* title: { trim: true }: the setter trims what is assigned. *)
TitleSetter(v) == Str(Trim(v))

(***************************************************************************)
(* The Event model: edits and saves of one document                        *)
(***************************************************************************)
Edited == result' = "none" /\ errField' = "none" /\ before' = <<>>

SetTitle(v) ==
    /\ UNCHANGED <<connVars, bookingVars>>
    /\ doc' = [doc EXCEPT !.title = TitleSetter(v)]
    /\ titleModified' = (titleModified \/ TitleSetter(v) /= doc.title)
    /\ Edited
    /\ UNCHANGED <<persisted, tz, titleAtLastMod, slugByCaller, storedSlugByCaller>>

SetSlug(v) ==
    /\ UNCHANGED <<connVars, bookingVars>>
    /\ doc' = [doc EXCEPT !.slug = v]
    /\ slugByCaller' = (v.kind = "string" /\ Len(v.s) > 0)
    /\ Edited
    /\ UNCHANGED <<titleModified, persisted, tz, titleAtLastMod, storedSlugByCaller>>

SetDate(v) ==
    /\ UNCHANGED <<connVars, bookingVars>>
    /\ doc' = [doc EXCEPT !.date = Str(v)]
    /\ Edited
    /\ UNCHANGED <<titleModified, persisted, tz, titleAtLastMod, slugByCaller,
                   storedSlugByCaller>>

SetTime(v) ==
    /\ UNCHANGED <<connVars, bookingVars>>
    /\ doc' = [doc EXCEPT !.time = Str(v)]
    /\ Edited
    /\ UNCHANGED <<titleModified, persisted, tz, titleAtLastMod, slugByCaller,
                   storedSlugByCaller>>

SetField(f, v) ==
    /\ UNCHANGED <<connVars, bookingVars>>
    /\ doc' = [doc EXCEPT ![f] = v]
    /\ BadFieldCount(doc') <= MaxBadFields
    /\ Edited
    /\ UNCHANGED <<titleModified, persisted, tz, titleAtLastMod, slugByCaller,
                   storedSlugByCaller>>

(* document.save(): the pre-save hook, then the write when it did not throw. *)
SaveEvent ==
    \E r \in {PreSave(doc, titleModified, tz)} :
        /\ doc' = r.doc
        /\ result' = IF r.err = "none" THEN "ok" ELSE r.err
        /\ persisted' = IF r.err = "none" THEN <<r.doc>> ELSE persisted
        /\ titleModified' = IF r.err = "none" THEN FALSE ELSE titleModified
        /\ before' = <<[doc |-> doc, persisted |-> persisted,
                        titleModified |-> titleModified]>>
        /\ titleAtLastMod' =
              IF r.err = "none" /\ titleModified THEN <<doc.title.s>>
              ELSE titleAtLastMod
        /\ errField' = r.field
        /\ slugByCaller' = (slugByCaller /\ r.doc.slug = doc.slug)
        /\ storedSlugByCaller' =
              IF r.err = "none" THEN slugByCaller /\ r.doc.slug = doc.slug
              ELSE storedSlugByCaller
        /\ UNCHANGED <<tz, connVars, bookingVars>>

InitEvent ==
    /\ ConnIdle
    /\ BookingIdle
    /\ tz \in EventTimezones
    /\ \E t \in {TitleSetter(v) : v \in Titles} \cup {Undefined},
          d \in DateInputs, h \in TimeInputs :
          /\ doc = NewDocument(t, Str(d), Str(h))
          /\ titleModified = (t /= Undefined)
    /\ persisted = <<>>
    /\ before = <<>>
    /\ result = "none"
    /\ errField = "none"
    /\ titleAtLastMod = <<>>
    /\ slugByCaller = FALSE
    /\ storedSlugByCaller = FALSE

NextEvent ==
    \/ \E v \in Titles : SetTitle(v)
    \/ \E v \in {Str(s) : s \in CallerSlugs} \cup {Str(<<>>)} : SetSlug(v)
    \/ \E v \in DateInputs : SetDate(v)
    \/ \E v \in TimeInputs : SetTime(v)
    \/ \E f \in EditableTexts, v \in BadTexts \cup {Filler} : SetField(f, v)
    \/ \E f \in EditableArrays, v \in BadArrays \cup {Arr(<<"x">>)} : SetField(f, v)
    \/ SaveEvent

SpecEvent == InitEvent /\ [][NextEvent]_vars

(* Nothing of the Event document moves while the other models run. *)
EventIdle ==
    /\ tz = 0
    /\ doc = NewDocument(Undefined, Undefined, Undefined)
    /\ titleModified = FALSE
    /\ persisted = <<>>
    /\ before = <<>>
    /\ result = "none"
    /\ errField = "none"
    /\ titleAtLastMod = <<>>
    /\ slugByCaller = FALSE
    /\ storedSlugByCaller = FALSE

(***************************************************************************)
(* The connection model                                                    *)
(***************************************************************************)
InitConn ==
    /\ EventIdle
    /\ BookingIdle
    /\ envUri \in EnvValues
    /\ conn = 0
    /\ promise = 0
    /\ ops = <<>>
    /\ reactions = <<>>
    /\ pc = [c \in Callers |-> "idle"]
    /\ awaited = [c \in Callers |-> 0]
    /\ ret = [c \in Callers |-> 0]
    /\ err = [c \in Callers |-> "none"]

NextConn ==
    \/ \E c \in Callers : Call(c)
    \/ \E k \in 1..Len(ops), o \in {"fulfilled", "rejected"} : ConnectSettles(k, o)
    \/ \E c \in Callers : Resume(c)
    \/ \E c \in Callers : CallerContinues(c)
    \/ \E v \in EnvValues : SetEnv(v)

SpecConn == InitConn /\ [][NextConn]_vars

(***************************************************************************)
(* The booking model                                                       *)
(***************************************************************************)
InitBooking ==
    /\ EventIdle
    /\ ConnIdle
    /\ events \in SUBSET EventIds
    /\ bookings = {}
    /\ bpc = [s \in Savers |-> "idle"]
    /\ bdoc = [s \in Savers |-> NoBooking]
    /\ found = [s \in Savers |-> FALSE]
    /\ berr = [s \in Savers |-> "none"]

NextBooking ==
    \/ \E s \in Savers, e \in EventIds, m \in {Str(v) : v \in EmailInputs} \cup {Undefined} :
          BeginSave(s, e, m)
    \/ \E s \in Savers : ExistsAnswers(s)
    \/ \E s \in Savers : HookResumes(s)
    \/ \E s \in Savers : WriteBooking(s)
    \/ \E s \in Savers : SaveOver(s)
    \/ \E e \in EventIds : CreateEvent(e)
    \/ \E e \in EventIds : DeleteEvent(e)

SpecBooking == InitBooking /\ [][NextBooking]_vars

(***************************************************************************)
(* The normalization model: one document with every other field valid,    *)
(* its date and time drawn from wide input sets, saved over and over.       *)
(***************************************************************************)
HourParts ==
    { <<"0">>, <<"1">>, <<"9">>, <<"0", "9">>, <<"1", "1">>, <<"1", "2">>,
      <<"1", "3">>, <<"2", "3">>, <<"2", "4">>, <<"2", "5">> }

MinuteParts == { <<>>, <<":", "0", "0">>, <<":", "0", "5">>, <<":", "5", "9">>,
                 <<":", "6", "0">>, <<":", "5">> }

PeriodParts == { <<>>, <<"a", "m">>, <<" ", "A", "M">>, <<"p", "m">>,
                 <<" ", " ", "P", "m">>, <<" ", "h">> }

WideTimeInputs ==
    { <<" ">> \o h \o m \o p : h \in HourParts, m \in MinuteParts, p \in PeriodParts }
      \cup { h \o m \o p : h \in {<<"1", "2">>, <<"7">>}, m \in MinuteParts,
                           p \in PeriodParts }
      \cup { <<"n", "o", "o", "n">>, <<"1", "2", "3", "p", "m">>, <<"a", "m">> }

YearParts == { <<"0", "0", "0", "0">>, <<"1", "9", "7", "0">>, <<"2", "0", "2", "3">>,
               <<"2", "0", "2", "4">>, <<"9", "9", "9", "9">>,
               <<"+", "0", "1", "0", "0", "0", "0">>,
               <<"-", "0", "0", "0", "0", "0", "1">>,
               <<"-", "0", "0", "0", "0", "0", "0">>, <<"2", "4">> }

MonthDayParts == { <<"-", "0", "1", "-", "0", "1">>, <<"-", "0", "2", "-", "2", "9">>,
                   <<"-", "0", "2", "-", "3", "0">>, <<"-", "1", "2", "-", "3", "1">>,
                   <<"-", "1", "3", "-", "0", "1">>, <<"-", "0", "3", "-", "0", "0">>,
                   <<"/", "0", "3", "/", "0", "7">> }

ClockParts == { <<>>, <<"T", "0", "0", ":", "0", "0">>, <<"T", "0", "4", ":", "5", "9">>,
                <<"T", "2", "3", ":", "5", "9">>, <<"T", "2", "4", ":", "0", "0">>,
                <<"T", "2", "4", ":", "0", "1">>,
                <<"T", "1", "8", ":", "3", "0", ":", "0", "0", ".", "0", "0", "0", "Z">>,
                <<"T", "2", "3", ":", "5", "9", ":", "5", "9", ".", "9", "9", "9", "Z">>,
                <<"T", "1", "0", ":", "6", "0">>, <<" ", "1", "0", "a", "m">> }

WideDateInputs ==
    { y \o md \o c : y \in YearParts, md \in MonthDayParts, c \in ClockParts }

SampleTitle == <<"G", "o", " ", "W", "e", "b", "!">>

InitNorm ==
    /\ ConnIdle
    /\ BookingIdle
    /\ tz \in TimezoneOffsets
    /\ \E p \in (WideDateInputs \X TimeInputs) \cup (DateInputs \X WideTimeInputs) :
          doc = NewDocument(TitleSetter(SampleTitle), Str(p[1]), Str(p[2]))
    /\ titleModified = TRUE
    /\ persisted = <<>>
    /\ before = <<>>
    /\ result = "none"
    /\ errField = "none"
    /\ titleAtLastMod = <<>>
    /\ slugByCaller = FALSE
    /\ storedSlugByCaller = FALSE

NextNorm == SaveEvent

SpecNorm == InitNorm /\ [][NextNorm]_vars

(***************************************************************************)
(* Properties of the Event validator / normalizer                          *)
(***************************************************************************)
SaveFailed == result \notin {"none", "ok"}

(* The slug the hook's slug step leaves on a document. *)
SlugAfterSlugStep(d, titleMod) ==
    IF titleMod \/ SlugAbsent(d) THEN Str(slugify(d.title.s)) ELSE d.slug

(* C7: for every time of the 12-hour form H[:MM] am|pm, normalization     *)
(* fails with ValidationError{time} when the hour is outside 1..12 or the  *)
(* minute outside 0..59, and otherwise returns the zero-padded 24-hour     *)
(* HH:MM, with 12 am -> 00, 12 pm -> 12 and other pm hours -> hour + 12.   *)
C7_TwelveHourClock ==
    (result \in {"ok", "time"} /\ before[1].persisted = <<>>) =>
        LET m == MatchAmPm(ToLowerCase(Trim(before[1].doc.time.s)))
            h == ParseInt(m[1])
            mi == IF m[2] = <<>> THEN 0 ELSE ParseInt(m[2])
            h24 == IF m[3] = <<"a", "m">>
                   THEN (IF h = 12 THEN 0 ELSE h)
                   ELSE (IF h = 12 THEN 12 ELSE h + 12)
        IN  m /= <<>> =>
              IF h \notin 1..12 \/ mi \notin 0..59
              THEN result = "time" /\ errField = "time"
              ELSE result = "ok" /\ doc.time = Str(FormatHHMM(h24, mi))

(* C8 as claimed: a failed save leaves slug, date and time as they were    *)
(* before the call, and persists nothing.                                  *)
C8_NoRewriteOnFailure ==
    SaveFailed =>
        /\ doc.slug = before[1].doc.slug
        /\ doc.date = before[1].doc.date
        /\ doc.time = before[1].doc.time
        /\ persisted = before[1].persisted

(* C8 amended: a failed save persists nothing and never rewrites the time; *)
(* a failure at the required-fields, agenda or tags step leaves the whole  *)
(* record untouched; a failure at the date step leaves the slug step       *)
(* applied; a failure at the time step leaves the slug step and the ISO    *)
(* date rewrite applied.                                                   *)
C8_FailedSaveEffects ==
    SaveFailed =>
        LET b == before[1]
            slugged == [b.doc EXCEPT !.slug = SlugAfterSlugStep(b.doc, b.titleModified)]
        IN  /\ persisted = b.persisted
            /\ titleModified = b.titleModified
            /\ doc.time = b.doc.time
            /\ result \in {"required", "agenda", "tags"} => doc = b.doc
            /\ result = "date" => doc = slugged
            /\ result = "time" =>
                  /\ normalizeDateToISO(b.doc.date.s, tz).ok
                  /\ doc = [slugged EXCEPT
                              !.date = Str(normalizeDateToISO(b.doc.date.s, tz).v)]

C8_Witness ==
    /\ result = "time"
    /\ doc.slug /= before[1].doc.slug
    /\ doc.date /= before[1].doc.date
    /\ before[1].persisted /= <<>>

(* C9 as claimed: the stored slug is slugify of the title as of the most   *)
(* recent save in which the title was modified.                            *)
C9_SlugIsFunctionOfTitle ==
    persisted /= <<>> =>
        /\ titleAtLastMod /= <<>>
        /\ persisted[1].slug = Str(slugify(titleAtLastMod[1]))

(* C9 amended: every successful save stores slugify(title) when the title  *)
(* was modified or no slug was set, and the slug it found otherwise; so    *)
(* the stored slug is slugify of the title as of the most recent save in   *)
(* which the title was modified, unless the stored slug is a value the     *)
(* caller assigned directly, which a save with the title unmodified keeps. *)
C9_SlugFollowsTitle ==
    /\ result = "ok" =>
          /\ persisted[1].slug =
                SlugAfterSlugStep(before[1].doc, before[1].titleModified)
          /\ persisted[1].title = before[1].doc.title
    /\ (persisted /= <<>> /\ ~storedSlugByCaller) =>
          /\ titleAtLastMod /= <<>>
          /\ persisted[1].slug = Str(slugify(titleAtLastMod[1]))

C9_Witness ==
    /\ result = "ok"
    /\ before[1].persisted /= <<>>
    /\ ~before[1].titleModified
    /\ ~SlugAbsent(before[1].doc)
    /\ ~storedSlugByCaller
    /\ persisted[1].slug = before[1].persisted[1].slug
    /\ before[1].persisted[1].title /= TitleSetter(SampleTitle)
    /\ persisted[1].slug = Str(slugify(titleAtLastMod[1]))

(* C10: re-normalizing a stored (canonical) date or time succeeds and      *)
(* yields the same string, so saving an unchanged record again leaves the  *)
(* stored date and time as they are.                                       *)
C10_NormalizationIdempotent ==
    result = "ok" =>
        /\ normalizeDateToISO(doc.date.s, tz) = Returned(doc.date.s)
        /\ normalizeTimeTo24(doc.time.s) = Returned(doc.time.s)
        /\ (before[1].persisted /= <<>> /\ before[1].doc = before[1].persisted[1]) =>
              /\ persisted[1].date = before[1].persisted[1].date
              /\ persisted[1].time = before[1].persisted[1].time

C10_Witness ==
    /\ result = "ok"
    /\ before[1].persisted /= <<>>
    /\ before[1].doc = before[1].persisted[1]
    /\ persisted = before[1].persisted
    /\ doc.time = Str(<<"2", "1", ":", "0", "5">>)

(***************************************************************************)
(* Properties of the connection cache                                      *)
(***************************************************************************)
Pending == {k \in 1..Len(ops) : ops[k].state = "pending"}

Fulfilled == {k \in 1..Len(ops) : ops[k].state = "fulfilled"}

Rejected == {k \in 1..Len(ops) : ops[k].state = "rejected"}

(* Caller c makes its call in this step. *)
Calls(c) == pc[c] = "idle" /\ pc'[c] /= "idle"

(* Caller c's call resumes, in this step, from awaiting a rejected connect. *)
ResumesFromFailure(c) ==
    Awaiting(c) /\ ~Awaiting(c)' /\ ops[awaited[c]].state = "rejected"

(* The latest connect failed and the call that started it has handled that. *)
LastAttemptFailed ==
    /\ Len(ops) > 0
    /\ ops[Len(ops)].state = "rejected"
    /\ ~(Awaiting(ops[Len(ops)].owner) /\ awaited[ops[Len(ops)].owner] = Len(ops))

(* C1: while no connect has failed, the calls made with a configured URI   *)
(* have started exactly one connect operation between them, and every      *)
(* call that returned has returned the handle of that one operation.       *)
C1_OneConnectSameHandle ==
    Rejected = {} =>
        /\ Len(ops) <= 1
        /\ \A c \in Callers :
              /\ (Awaiting(c) \/ pc[c] = "returned") => Len(ops) = 1
              /\ Awaiting(c) => awaited[c] = 1
              /\ pc[c] = "returned" => (ret[c] = 1 /\ ops[1].state = "fulfilled")

C1_Witness ==
    /\ Rejected = {}
    /\ Len(ops) = 1
    /\ \A c \in Callers : pc[c] = "returned" /\ ret[c] = 1 /\ awaited[c] = 1

(* C2: a failed connect is thrown to every call awaiting it and caches no  *)
(* handle; the call that started it clears the in-flight slot; once it has,*)
(* both slots are empty and the next call with a configured URI starts a   *)
(* fresh connect operation.                                                *)
C2_FailureClearsSlot ==
    /\ [](LastAttemptFailed => (conn = 0 /\ promise = 0))
    /\ [][\A c \in Callers :
            /\ ResumesFromFailure(c) =>
                  /\ pc'[c] = "threw" /\ err'[c] = "ConnectError" /\ ret'[c] = 0
                  /\ conn' = conn /\ conn /= awaited[c]
                  /\ pc[c] = "awaitOwn" => promise' = 0
            /\ (Calls(c) /\ LastAttemptFailed /\ ~UriMissing) =>
                  /\ Len(ops') = Len(ops) + 1
                  /\ ops'[Len(ops')] = [state |-> "pending", owner |-> c]
                  /\ pc'[c] = "awaitOwn" /\ awaited'[c] = Len(ops')
                  /\ promise' = Len(ops')]_vars

C2_Witness ==
    /\ Len(ops) = 2
    /\ ops[1].state = "rejected"
    /\ \E c \in Callers : pc[c] = "threw" /\ err[c] = "ConnectError" /\ awaited[c] = 1
    /\ \E c \in Callers : pc[c] = "awaitOwn" /\ awaited[c] = 2

(* C3 as claimed: whenever the live-handle slot is populated, a call       *)
(* returns that handle at once and starts no connect, whatever the URI.    *)
C3_LiveHandleAlwaysReturned ==
    [][\A c \in Callers :
          (Calls(c) /\ conn /= 0) =>
              (pc'[c] = "returned" /\ ret'[c] = conn /\ ops' = ops)]_vars

(* C3 amended: whenever the live-handle slot is populated, a call starts   *)
(* no connect and leaves both slots alone; it returns that handle at once  *)
(* when a connection URI is configured, and throws ConfigError when the    *)
(* URI is unset or blank.                                                  *)
C3_LiveHandleReturnedIfConfigured ==
    [][\A c \in Callers :
          (Calls(c) /\ conn /= 0) =>
              /\ ops' = ops /\ conn' = conn /\ promise' = promise
              /\ IF Len(MONGODB_URI) > 0
                 THEN pc'[c] = "returned" /\ ret'[c] = conn /\ err'[c] = "none"
                 ELSE pc'[c] = "threw" /\ err'[c] = "ConfigError" /\ ret'[c] = 0]_vars

C3_Witness ==
    /\ conn /= 0
    /\ \E c \in Callers : pc[c] = "returned" /\ awaited[c] = 0 /\ ret[c] = conn
    /\ \E c \in Callers : pc[c] = "threw" /\ err[c] = "ConfigError"

(* C4: at most one connect operation is pending and at most one live       *)
(* handle exists, in every reachable state.                                *)
C4_AtMostOne ==
    /\ Cardinality(Pending) <= 1
    /\ Cardinality(Fulfilled) <= 1
    /\ conn /= 0 => conn \in Fulfilled
    /\ \A c \in Callers : pc[c] = "returned" => ret[c] \in Fulfilled
    /\ Pending /= {} => (promise \in Pending /\ conn = 0)

C4_Witness ==
    /\ Len(ops) = 2
    /\ ops[1].state = "rejected"
    /\ ops[2].state = "fulfilled"
    /\ conn = 2
    /\ \E c \in Callers : pc[c] = "returned" /\ ret[c] = 2

(***************************************************************************)
(* Properties of the Booking validator                                     *)
(***************************************************************************)
(* Save s writes its document to the store in this step. *)
Writes(s) == bpc[s] = "saving" /\ bpc'[s] = "saved"

(* C5 as claimed: a booking is never written at a moment when the Event    *)
(* it references does not exist.                                           *)
C5_NeverWrittenWithoutEvent ==
    [][\A s \in Savers : Writes(s) => bdoc[s].eventId \in events]_vars

(* C5 amended: a booking is written only after the existence check found   *)
(* its Event in the store; the Event may have been deleted between that    *)
(* check and the write.                                                    *)
C5_WrittenOnlyAfterEventSeen ==
    \A s \in Savers :
        bpc[s] \in {"saving", "saved"} =>
            /\ found[s]
            /\ ~EmailRejected(bdoc[s])
            /\ bpc[s] = "saved" => bdoc[s] \in bookings

C5_Witness ==
    \E s \in Savers :
        /\ bpc[s] = "saved"
        /\ found[s]
        /\ bdoc[s].eventId \notin events
        /\ bdoc[s] \in bookings

(* C6: a save with a valid email whose Event did not exist when the check  *)
(* ran fails with ReferenceError and writes nothing.                       *)
C6_MissingEventRejected ==
    [][\A s \in Savers :
          /\ (bpc[s] = "answered" /\ bpc'[s] /= "answered" /\ ~found[s]) =>
                /\ bpc'[s] = "failed" /\ berr'[s] = "ReferenceError"
                /\ bookings' = bookings
          /\ bpc[s] = "failed" =>
                /\ bpc'[s] \in {"failed", "idle"}
                /\ bookings' /= bookings => \E o \in Savers \ {s} : Writes(o)]_vars

C6_Witness ==
    \E s \in Savers :
        /\ bpc[s] = "failed"
        /\ berr[s] = "ReferenceError"
        /\ ~EmailRejected(bdoc[s])
        /\ ~found[s]
        /\ bdoc[s].eventId \notin events
        /\ bdoc[s] \notin bookings

=============================================================================
